---- MODULE Spec2Model ----
(***************************************************************************)
(* EasySettings: a key/value settings store kept in memory and saved to a  *)
(* line-based text file (easy_settings.py), and the BackedUpWriter context *)
(* manager of common_base.py.                                              *)
(*                                                                         *)
(* Text is a sequence of one-character strings.  The newline escape token  *)
(* "(es_nl)" is carried as ONE symbol of a text: no text of the model      *)
(* holds its seven characters one by one, so a token can only come from    *)
(* str.replace or from a value that holds the token itself.                *)
(***************************************************************************)
EXTENDS Integers, Sequences, FiniteSets, TLC

VARIABLES
    settings,    \* EasySettings.settings: the dict, in insertion order
    configfile,  \* EasySettings.configfile: a path or None
    fs,          \* the file system: path -> [exists, data]
    last,        \* the last call on the store: its name, arguments, result
    bw,          \* the BackedUpWriter object and the `with` scope using it
    store        \* a JSONSettings, TOMLSettings or YAMLSettings object

vars == <<settings, configfile, fs, last, bw, store>>

-----------------------------------------------------------------------------
(* Bounds of the model *)

MaxEntries == 2      \* entries the in-memory dict may hold
MaxWrites == 2       \* f.write calls inside one BackedUpWriter scope

-----------------------------------------------------------------------------
(* Text helpers (python str methods) *)

None == "None"
ES_NL == "(es_nl)"
NL == "\n"

Digit == {"0", "1", "2", "3", "4", "5", "6", "7", "8", "9"}

\* str.strip / lstrip / rstrip without arguments strip these
Whitespace == {" ", "\t", "\n"}

RECURSIVE lstrip(_)
lstrip(s) ==
    IF s # <<>> /\ Head(s) \in Whitespace THEN lstrip(Tail(s)) ELSE s

RECURSIVE rstrip(_)
rstrip(s) ==
    IF s # <<>> /\ s[Len(s)] \in Whitespace
    THEN rstrip(SubSeq(s, 1, Len(s) - 1))
    ELSE s

\* s.replace(a, b) for one-symbol a and b
replace(s, a, b) == [i \in 1..Len(s) |-> IF s[i] = a THEN b ELSE s[i]]

\* s.replace(' ', ''): every space dropped
RECURSIVE replace_spaces(_)
replace_spaces(s) ==
    IF s = <<>> THEN <<>>
    ELSE IF Head(s) = " " THEN replace_spaces(Tail(s))
    ELSE <<Head(s)>> \o replace_spaces(Tail(s))

\* s.index(c): the first position of c, 0 when str.index raises ValueError
index(s, c) ==
    IF \E i \in 1..Len(s) : s[i] = c
    THEN CHOOSE i \in 1..Len(s) : s[i] = c /\ \A j \in 1..(i - 1) : s[j] # c
    ELSE 0

Contains(s, c) == \E i \in 1..Len(s) : s[i] = c

\* `for sline in f`: the lines of a text, each with its newline
RECURSIVE file_lines(_)
file_lines(text) ==
    IF text = <<>> THEN <<>>
    ELSE LET n == index(text, NL)
         IN IF n = 0 THEN <<text>>
            ELSE <<SubSeq(text, 1, n)>> \o file_lines(SubSeq(text, n + 1, Len(text)))

RECURSIVE Flatten(_)
Flatten(ss) == IF ss = <<>> THEN <<>> ELSE Head(ss) \o Flatten(Tail(ss))

-----------------------------------------------------------------------------
(* Values a setting may hold.  Every value is a record [t, v, items]: t the *)
(* python type, v the text that identifies the value within its type, and  *)
(* items the elements of a list.                                           *)

VStr(s) == [t |-> "str", v |-> s, items |-> <<>>]
VBool(b) == [t |-> "bool", v |-> IF b THEN <<"1">> ELSE <<"0">>, items |-> <<>>]
\* an int, by its decimal digits
VInt(ds) == [t |-> "int", v |-> ds, items |-> <<>>]
\* a float, by its repr()
VFloat(r) == [t |-> "float", v |-> r, items |-> <<>>]
\* a datetime.date, by the digits YYYYMMDD
VDate(ds) == [t |-> "date", v |-> ds, items |-> <<>>]
\* a datetime.datetime without microseconds, by the digits YYYYMMDDHHMMSS
VDateTime(ds) == [t |-> "datetime", v |-> ds, items |-> <<>>]
\* a list of numbers
VList(xs) == [t |-> "list", v |-> <<>>, items |-> xs]
\* an object pickle cannot dump (a lambda, an open file)
VObj == [t |-> "obj", v |-> <<>>, items |-> <<>>]

Numeric == {"bool", "int", "float"}

\* the number a bool, int or float stands for, as text: True == 1 == 1.0
NumKey(x) ==
    IF x.t = "float" /\ Len(x.v) > 2 /\ SubSeq(x.v, Len(x.v) - 1, Len(x.v)) = <<".", "0">>
    THEN SubSeq(x.v, 1, Len(x.v) - 2)
    ELSE x.v

\* python's == on two values
RECURSIVE PyEq(_, _)
PyEq(a, b) ==
    IF a.t \in Numeric /\ b.t \in Numeric THEN NumKey(a) = NumKey(b)
    ELSE /\ a.t = b.t
         /\ a.v = b.v
         /\ Len(a.items) = Len(b.items)
         /\ \A i \in 1..Len(a.items) : PyEq(a.items[i], b.items[i])

-----------------------------------------------------------------------------
(* The dict: a sequence of [k, val] entries with distinct keys, in          *)
(* insertion order.                                                        *)

DictKeys(d) == {d[i].k : i \in 1..Len(d)}

DictGet(d, key) == d[CHOOSE i \in 1..Len(d) : d[i].k = key].val

\* d[key] = val: an existing key keeps its place
DictSet(d, key, val) ==
    IF key \in DictKeys(d)
    THEN [i \in 1..Len(d) |-> IF d[i].k = key THEN [k |-> key, val |-> val] ELSE d[i]]
    ELSE Append(d, [k |-> key, val |-> val])

\* dict == dict
DictEq(a, b) ==
    /\ DictKeys(a) = DictKeys(b)
    /\ \A key \in DictKeys(a) : PyEq(DictGet(a, key), DictGet(b, key))

-----------------------------------------------------------------------------
(* pickle, protocol 0, as text *)

Raised(s) == [ok |-> FALSE, s |-> s]
Returned(s) == [ok |-> TRUE, s |-> s]

\* the opcodes that push a number: I01 / I00 for a bool, I<digits>, F<repr>
PickleNumber(x) ==
    CASE x.t = "bool" -> <<"I", "0">> \o x.v \o <<NL>>
      [] x.t = "int" -> <<"I">> \o x.v \o <<NL>>
      [] x.t = "float" -> <<"F">> \o x.v \o <<NL>>

Picklable(x) ==
    \/ x.t \in Numeric
    \/ x.t = "list" /\ \A i \in 1..Len(x.items) : x.items[i].t \in Numeric

\* safe_pickle_str(object_): pickle.dumps(object_, 0) as a str
safe_pickle_str(x) ==
    IF ~Picklable(x) THEN Raised(<<>>)
    ELSE IF x.t = "list"
    THEN Returned(<<"(", "l", "p", "0", NL>>
                  \o Flatten([i \in 1..Len(x.items) |->
                                 PickleNumber(x.items[i]) \o <<"a">>])
                  \o <<".">>)
    ELSE Returned(PickleNumber(x) \o <<".">>)

NoObj == [ok |-> FALSE, val |-> VObj, next |-> 0]

\* one I or F opcode read at position i of s: the number and the position after it
LoadNumber(s, i) ==
    IF i > Len(s) \/ s[i] \notin {"I", "F"} THEN NoObj
    ELSE LET rest == SubSeq(s, i + 1, Len(s))
             n == index(rest, NL)
             arg == SubSeq(rest, 1, n - 1)
         IN IF n < 2 THEN NoObj
            ELSE IF s[i] = "I" /\ \A j \in 1..Len(arg) : arg[j] \in Digit
            THEN [ok |-> TRUE,
                  val |-> IF arg = <<"0", "1">> THEN VBool(TRUE)
                          ELSE IF arg = <<"0", "0">> THEN VBool(FALSE)
                          ELSE VInt(arg),
                  next |-> i + n + 1]
            ELSE IF s[i] = "F" /\ \A j \in 1..Len(arg) : arg[j] \in Digit \cup {"."}
            THEN [ok |-> TRUE, val |-> VFloat(arg), next |-> i + n + 1]
            ELSE NoObj

\* the items of a list read from position i up to the STOP opcode
RECURSIVE LoadItems(_, _, _)
LoadItems(s, i, acc) ==
    IF i > Len(s) THEN NoObj
    ELSE IF s[i] = "." THEN [ok |-> TRUE, val |-> VList(acc), next |-> i + 1]
    ELSE LET x == LoadNumber(s, i)
         IN IF x.ok /\ x.next <= Len(s) /\ s[x.next] = "a"
            THEN LoadItems(s, x.next + 1, Append(acc, x.val))
            ELSE NoObj

\* safe_pickle_obj(string_): pickle.loads of the text; what follows the STOP
\* opcode is not read.  ok is FALSE where pickle.loads raises.
safe_pickle_obj(s) ==
    IF Len(s) >= 5 /\ SubSeq(s, 1, 5) = <<"(", "l", "p", "0", NL>>
    THEN LoadItems(s, 6, <<>>)
    ELSE LET x == LoadNumber(s, 1)
         IN IF x.ok /\ x.next <= Len(s) /\ s[x.next] = "." THEN x ELSE NoObj

-----------------------------------------------------------------------------
(* Dates: ISO8601 = '%Y-%m-%dT%H:%M:%SZ' *)

\* val.strftime(ISO8601) of a date (midnight) or a datetime
strftime(x) ==
    LET d == IF x.t = "date" THEN x.v \o <<"0", "0", "0", "0", "0", "0">> ELSE x.v
    IN SubSeq(d, 1, 4) \o <<"-">> \o SubSeq(d, 5, 6) \o <<"-">> \o SubSeq(d, 7, 8)
       \o <<"T">> \o SubSeq(d, 9, 10) \o <<":">> \o SubSeq(d, 11, 12)
       \o <<":">> \o SubSeq(d, 13, 14) \o <<"Z">>

IsoLen == 20

\* datetime.strptime(val, ISO8601): ok is FALSE where it raises ValueError
strptime(s) ==
    IF /\ Len(s) = IsoLen
       /\ s[5] = "-" /\ s[8] = "-" /\ s[11] = "T"
       /\ s[14] = ":" /\ s[17] = ":" /\ s[20] = "Z"
       /\ \A i \in (1..IsoLen) \ {5, 8, 11, 14, 17, 20} : s[i] \in Digit
    THEN [ok |-> TRUE,
          val |-> VDateTime(SubSeq(s, 1, 4) \o SubSeq(s, 6, 7) \o SubSeq(s, 9, 10)
                            \o SubSeq(s, 12, 13) \o SubSeq(s, 15, 16)
                            \o SubSeq(s, 18, 19))]
    ELSE [ok |-> FALSE, val |-> VObj]

-----------------------------------------------------------------------------
(* The file system *)

\* os.path.join(sys.path[0], "config.conf"): the file of a store made without one
DefaultPath == "config.conf"
Paths == {DefaultPath, "my.conf"}

\* '{}~'.format(filename)
BackupName(p) == p \o "~"
AllPaths == Paths \cup {BackupName(p) : p \in Paths}

NoFile == [exists |-> FALSE, data |-> <<>>]
File(text) == [exists |-> TRUE, data |-> text]

\* os.path.isfile(p)
isfile(files, p) == p \in DOMAIN files /\ files[p].exists

-----------------------------------------------------------------------------
(* EasySettings: the header and the line format *)

\* the store is made without name, version and header
StoreName == None
StoreVersion == None

\* _build_header(): '# Configuration[ for <name>[ v. <version>]]'
build_header(name, version) ==
    <<"#", " ", "C", "o", "n", "f", "i", "g", "u", "r", "a", "t", "i", "o", "n">>
    \o (IF name = None THEN <<>>
        ELSE <<" ", "f", "o", "r", " ">> \o name
             \o (IF version = None THEN <<>> ELSE <<" ", "v", ".", " ">> \o version))

\* the text save() writes for one value; ok is FALSE where encoding raises
EncodeValue(val) ==
    CASE val.t = "str" -> Returned(replace(val.v, NL, ES_NL))
      [] val.t \in {"date", "datetime"} -> Returned(strftime(val))
      [] OTHER -> LET p == safe_pickle_str(val)
                  IN IF p.ok THEN Returned(replace(p.s, NL, ES_NL)) ELSE p

\* the value read_file_noset() makes of the text after the first '='
DecodeValue(text) ==
    LET sval == replace(text, ES_NL, NL)
        obj == safe_pickle_obj(sval)
        val == rstrip(sval)
        dateval == strptime(val)
    IN IF obj.ok THEN obj.val
       ELSE IF dateval.ok THEN dateval.val
       ELSE VStr(val)

\* a faulty loop body that keeps the first value of a key that comes twice
ReadLineKeepsFirst(tmp_dict, sline) ==
    LET stripped == lstrip(sline)
        eqindex == index(sline, "=")
    IN IF stripped # <<>> /\ Head(stripped) = "#" THEN tmp_dict
       ELSE IF eqindex = 0 THEN tmp_dict
       ELSE IF SubSeq(sline, 1, eqindex - 1) \in DictKeys(tmp_dict) THEN tmp_dict
       ELSE DictSet(tmp_dict,
                    SubSeq(sline, 1, eqindex - 1),
                    DecodeValue(SubSeq(sline, eqindex + 1, Len(sline))))

\* one turn of the loop over the lines of the file
ReadLine(tmp_dict, sline) ==
    LET stripped == lstrip(sline)
        eqindex == index(sline, "=")
    IN IF stripped # <<>> /\ Head(stripped) = "#" THEN tmp_dict
       ELSE IF eqindex = 0 THEN tmp_dict
       ELSE DictSet(tmp_dict,
                    SubSeq(sline, 1, eqindex - 1),
                    DecodeValue(SubSeq(sline, eqindex + 1, Len(sline))))

RECURSIVE ReadLines(_, _)
ReadLines(tmp_dict, lines) ==
    IF lines = <<>> THEN tmp_dict
    ELSE ReadLines(ReadLine(tmp_dict, Head(lines)), Tail(lines))

\* read_file_noset(sfile) of a store whose configfile is cf: the dict it returns
read_file_noset(files, cf, sfile) ==
    LET path == IF sfile = None THEN cf ELSE sfile
    IN IF path = None THEN <<>>
       ELSE IF ~isfile(files, path) THEN <<>>
       ELSE ReadLines(<<>>, file_lines(files[path].data))

-----------------------------------------------------------------------------
(* EasySettings.set *)

\* the argument value=None
VNone == [t |-> "None", v |-> <<>>, items |-> <<>>]

\* the key is refused: it holds '=', or nothing is left of it without its spaces
KeyRefused(soption) ==
    \/ Contains(soption, "=")
    \/ Len(replace_spaces(soption)) = 0

\* set(soption, value) on the dict d: the error raised (None when it returns
\* True) and the dict afterwards
set(d, soption, value) ==
    IF KeyRefused(soption)
    THEN [err |-> "esSetError", d |-> d]
    ELSE [err |-> None,
          d |-> DictSet(d, soption, IF value = VNone THEN VStr(<<>>) ELSE value)]

\* `for k in settings: self.set(k, settings[k])`, stopped by the first error
RECURSIVE set_all(_, _)
set_all(d, loaded) ==
    IF loaded = <<>> THEN [err |-> None, d |-> d]
    ELSE LET r == set(d, Head(loaded).k, Head(loaded).val)
         IN IF r.err # None THEN r ELSE set_all(r.d, Tail(loaded))

\* a faulty load_file that never takes the given path as its configfile
\* (C9 must tell it from the code)
load_file_configfile_kept(cf, sfile) == cf

\* load_file(sfile): the configfile it leaves
load_file_configfile(cf, sfile) == IF sfile = None THEN cf ELSE sfile

\* a faulty load_file that empties the dict before it loads (C8 must tell it
\* from the code)
load_file_target_reset(d) == <<>>

\* load_file(sfile): the dict the loaded entries are set on
load_file_target(d) == d

\* load_file(sfile): return value, error, dict and configfile afterwards
load_file(files, d, cf, sfile) ==
    LET cf2 == load_file_configfile(cf, sfile)
    IN IF sfile = None /\ cf = None
       THEN [ret |-> "False", err |-> None, d |-> d, cf |-> cf]
       ELSE IF ~isfile(files, cf2)
       THEN [ret |-> "False", err |-> None, d |-> d, cf |-> cf2]
       ELSE LET r == set_all(load_file_target(d), read_file_noset(files, cf2, None))
            IN [ret |-> IF r.err = None THEN "True" ELSE "raised",
                err |-> r.err, d |-> r.d, cf |-> cf2]

-----------------------------------------------------------------------------
(* EasySettings.save *)

\* open(path, 'w'): the file is created, or emptied
open_w(files, path) == [files EXCEPT ![path] = File(<<>>)]

\* the fwrite.write() calls of save(), in order: the header line, then one
\* line per entry; ok is FALSE for an entry whose value cannot be encoded
SaveWrites(d) ==
    <<Returned(build_header(StoreName, StoreVersion) \o <<NL>>)>>
    \o [i \in 1..Len(d) |->
           LET e == EncodeValue(d[i].val)
           IN IF e.ok THEN Returned(d[i].k \o <<"=">> \o e.s \o <<NL>>) ELSE e]

\* the outcomes of the I/O of one save(): no error, open() raises, or the
\* n-th write() raises (a full disk)
NoFail == 0
OpenFails == -1
IoOutcomes(d) == {NoFail, OpenFails} \cup (1..(Len(d) + 1))

\* the first write of save() that is not made: Len + 1 when all are made
FirstFailure(writes, io) ==
    LET bad == {i \in 1..Len(writes) : ~writes[i].ok \/ i = io}
    IN IF bad = {} THEN Len(writes) + 1
       ELSE CHOOSE i \in bad : \A j \in bad : i <= j

\* the file save() leaves at path when it got to open it: the writes made
\* before the first failure, flushed when the `with` block closes the file
save_written(files, path, writes, stop) ==
    [open_w(files, path) EXCEPT ![path] =
        File(Flatten([i \in 1..(stop - 1) |-> writes[i].s]))]

\* save(sfile): return value, error and the file system afterwards
save(files, d, cf, sfile, io) ==
    LET path == IF sfile = None THEN cf ELSE sfile
        writes == SaveWrites(d)
        stop == FirstFailure(writes, io)
    IN IF path = None
       THEN [ret |-> "False", err |-> None, files |-> files]
       ELSE IF io = OpenFails
       THEN [ret |-> "raised", err |-> "esSaveError", files |-> files]
       ELSE IF stop <= Len(writes)
       THEN [ret |-> "raised", err |-> "esSaveError",
             files |-> save_written(files, path, writes, stop)]
       ELSE [ret |-> "True", err |-> None,
             files |-> save_written(files, path, writes, stop)]

-----------------------------------------------------------------------------
(* EasySettings: construction *)

\* configfile_create(): a blank config file, the header line alone
configfile_create(files, path) ==
    [files EXCEPT ![path] = File(build_header(StoreName, StoreVersion) \o <<NL>>)]

\* a faulty configfile_exists that makes a blank file over the one that is there
configfile_exists_rewrites(files, path) == configfile_create(files, path)

\* configfile_exists(): the file is created when it is not there
configfile_exists(files, path) ==
    IF isfile(files, path) THEN files ELSE configfile_create(files, path)

\* EasySettings(sconfigfile): the new store and the file system afterwards
construct(files, sconfigfile) ==
    LET cf == IF sconfigfile = None THEN DefaultPath ELSE sconfigfile
        files2 == IF sconfigfile = None THEN files ELSE configfile_exists(files, cf)
        r == load_file(files2, <<>>, cf, None)
    IN [err |-> r.err, d |-> r.d, cf |-> r.cf, files |-> files2]

-----------------------------------------------------------------------------
(* EasySettings: set_list, remove, clear, clear_values, setsave *)

\* one element of the list given to set_list: a tuple of n items, (opt, val)
\* for n = 2, (opt,) for n = 1
Pair(opt, val) == [n |-> 2, k |-> opt, val |-> val]
Single(opt) == [n |-> 1, k |-> opt, val |-> VNone]
Tuple0 == [n |-> 0, k |-> <<>>, val |-> VNone]
Tuple3(opt, val) == [n |-> 3, k |-> opt, val |-> val]

\* set_list(lst_settings) on the dict d: the error raised (None when it returns
\* True) and the dict afterwards.  An empty tuple is passed over, a tuple of
\* three raises ValueError, an error of set() is raised again as esSetError.
RECURSIVE set_list(_, _)
set_list(d, lst_settings) ==
    IF lst_settings = <<>> THEN [err |-> None, d |-> d]
    ELSE LET sset == Head(lst_settings)
         IN IF sset.n = 0 THEN set_list(d, Tail(lst_settings))
            ELSE IF sset.n > 2 THEN [err |-> "ValueError", d |-> d]
            ELSE LET r == set(d, sset.k, sset.val)
                 IN IF r.err # None THEN [err |-> "esSetError", d |-> d]
                    ELSE set_list(r.d, Tail(lst_settings))

\* self.settings.pop(key)
DictPop(d, key) == SelectSeq(d, LAMBDA e : e.k # key)

\* `for itm in option: self.settings.pop(itm)`, counting the KeyErrors
RECURSIVE remove_items(_, _, _)
remove_items(d, option, errs) ==
    IF option = <<>> THEN [d |-> d, errs |-> errs]
    ELSE IF Head(option) \in DictKeys(d)
    THEN remove_items(DictPop(d, Head(option)), Tail(option), errs)
    ELSE remove_items(d, Tail(option), errs + 1)

\* remove(option): typ is the python type of option, "str" for one key,
\* "list" or "tuple" for several.  self.settings.get(option, NoValue) raises
\* TypeError for a list, which is not hashable.
remove(d, typ, option) ==
    IF typ = "list"
    THEN [ret |-> "raised", err |-> "TypeError", d |-> d]
    ELSE IF typ = "tuple"
    THEN LET r == remove_items(d, option, 0)
         IN [ret |-> IF r.errs = 0 THEN "True" ELSE "False", err |-> None, d |-> r.d]
    ELSE IF option \in DictKeys(d)
    THEN [ret |-> "True", err |-> None, d |-> DictPop(d, option)]
    ELSE [ret |-> "False", err |-> None, d |-> d]

\* clear(): self.settings = {}
clear(d) == <<>>

\* clear_values(lst_options): every value, or the values of the listed
\* options, become ''; given is FALSE for lst_options=None
clear_values(d, given, lst_options) ==
    [i \in 1..Len(d) |->
        IF ~given \/ (\E j \in 1..Len(lst_options) : lst_options[j] = d[i].k)
        THEN [k |-> d[i].k, val |-> VStr(<<>>)]
        ELSE d[i]]

\* setsave(soption, svalue): set, then save(); every exception is raised
\* again as a plain Exception
setsave(files, d, cf, soption, svalue, io) ==
    LET r == set(d, soption, svalue)
        w == save(files, r.d, cf, None, io)
    IN IF r.err # None
       THEN [ret |-> "raised", err |-> "Exception", d |-> r.d, files |-> files]
       ELSE IF w.err # None
       THEN [ret |-> "raised", err |-> "Exception", d |-> r.d, files |-> w.files]
       ELSE [ret |-> w.ret, err |-> None, d |-> r.d, files |-> w.files]

-----------------------------------------------------------------------------
(* EasySettings: comparisons *)

\* what a comparison is given: an EasySettings, a dict, something else (an
\* int), or nothing (the default NoValue)
NoValue == [kind |-> "NoValue", d |-> <<>>]
AsStore(d) == [kind |-> "EasySettings", d |-> d]
AsDict(d) == [kind |-> "dict", d |-> d]
AnInt == [kind |-> "int", d |-> <<>>]

Bool(b) == IF b THEN "True" ELSE "False"

\* _as_comparable(other) of a store whose dict is d: d when other is not
\* given, other.settings, other, or TypeError
as_comparable(d, other) ==
    IF other = NoValue THEN [err |-> None, d |-> d]
    ELSE IF other.kind \in {"EasySettings", "dict"}
    THEN [err |-> None, d |-> other.d]
    ELSE [err |-> "TypeError", d |-> <<>>]

\* _get_compare_args(other, other2) of a store whose dict is d
get_compare_args(d, other, other2) ==
    LET a == IF other2 = NoValue THEN as_comparable(d, NoValue)
             ELSE as_comparable(d, other)
        b == IF other2 = NoValue THEN as_comparable(d, other)
             ELSE as_comparable(d, other2)
    IN [err |-> IF a.err # None THEN a.err ELSE b.err, a |-> a.d, b |-> b.d]

\* compare_opts(settings1, settings2): set(adict) == set(bdict)
compare_opts(d, settings1, settings2) ==
    LET args == get_compare_args(d, settings1, settings2)
    IN IF args.err # None THEN [ret |-> "raised", err |-> args.err]
       ELSE [ret |-> Bool(DictKeys(args.a) = DictKeys(args.b)), err |-> None]

\* hash(value) raises TypeError for a list
Hashable(x) == x.t # "list"

\* set(adict.values()) == set(bdict.values())
ValuesEq(adict, bdict) ==
    /\ \A i \in 1..Len(adict) : \E j \in 1..Len(bdict) : PyEq(adict[i].val, bdict[j].val)
    /\ \A j \in 1..Len(bdict) : \E i \in 1..Len(adict) : PyEq(adict[i].val, bdict[j].val)

\* compare_vals(settings1, settings2)
compare_vals(d, settings1, settings2) ==
    LET args == get_compare_args(d, settings1, settings2)
        adict == args.a
        bdict == args.b
    IN IF args.err # None THEN [ret |-> "raised", err |-> args.err]
       ELSE IF \E i \in 1..Len(adict) : ~Hashable(adict[i].val)
       THEN [ret |-> "raised", err |-> "TypeError"]
       ELSE IF \E i \in 1..Len(bdict) : ~Hashable(bdict[i].val)
       THEN [ret |-> "raised", err |-> "TypeError"]
       ELSE IF ~ValuesEq(adict, bdict) THEN [ret |-> "False", err |-> None]
       ELSE [ret |-> Bool(\A i \in 1..Len(adict) :
                             /\ adict[i].k \in DictKeys(bdict)
                             /\ PyEq(adict[i].val, DictGet(bdict, adict[i].k))),
             err |-> None]

\* compare_settings(settings1, settings2)
compare_settings(d, settings1, settings2) ==
    LET args == get_compare_args(d, settings1, settings2)
        opts == compare_opts(d, settings1, settings2)
    IN IF args.err # None THEN [ret |-> "raised", err |-> args.err]
       ELSE IF Len(args.a) # Len(args.b) THEN [ret |-> "False", err |-> None]
       ELSE IF opts.ret # "True" THEN opts
       ELSE compare_vals(d, settings1, settings2)

\* __eq__(other)
eq(d, other) == compare_settings(d, AsDict(d), other)

\* __ne__(other)
ne(d, other) ==
    LET r == eq(d, other)
    IN IF r.err # None THEN r ELSE [ret |-> Bool(r.ret # "True"), err |-> None]

\* the operand of __gt__, __lt__, __ge__, __le__: its dict, or esCompareError
ordering_operand(other) ==
    IF other.kind \in {"EasySettings", "dict"}
    THEN [err |-> None, d |-> other.d]
    ELSE [err |-> "esCompareError", d |-> <<>>]

\* __gt__(other)
gt(d, other) ==
    LET set2 == ordering_operand(other)
    IN IF set2.err # None THEN [ret |-> "raised", err |-> set2.err]
       ELSE [ret |-> Bool(Len(d) > Len(set2.d)), err |-> None]

\* __lt__(other)
lt(d, other) ==
    LET set2 == ordering_operand(other)
    IN IF set2.err # None THEN [ret |-> "raised", err |-> set2.err]
       ELSE [ret |-> Bool(Len(d) < Len(set2.d)), err |-> None]

\* __ge__(other)
ge(d, other) ==
    LET set2 == ordering_operand(other)
    IN IF set2.err # None THEN [ret |-> "raised", err |-> set2.err]
       ELSE IF Len(d) > Len(set2.d) THEN [ret |-> "True", err |-> None]
       ELSE compare_settings(d, AsDict(set2.d), NoValue)

\* __le__(other)
le(d, other) ==
    LET set2 == ordering_operand(other)
    IN IF set2.err # None THEN [ret |-> "raised", err |-> set2.err]
       ELSE IF Len(d) < Len(set2.d) THEN [ret |-> "True", err |-> None]
       ELSE compare_settings(d, AsDict(set2.d), NoValue)

\* is_saved(): compare_settings(self.read_file_noset())
is_saved(files, d, cf) ==
    compare_settings(d, AsDict(read_file_noset(files, cf, None)), NoValue)

-----------------------------------------------------------------------------
(* The calls on the store, as steps *)

Call(op, key, path, ret, err, out) ==
    [op |-> op, key |-> key, path |-> path, ret |-> ret, err |-> err, out |-> out,
     io |-> NoFail, typ |-> None, keys |-> <<>>, args |-> <<>>]

\* settings.set(soption, value)
Set(soption, value) ==
    LET r == set(settings, soption, value)
    IN /\ Len(r.d) <= MaxEntries
       /\ settings' = r.d
       /\ last' = Call("set", soption, None,
                       IF r.err = None THEN "True" ELSE "raised", r.err, <<>>)
       /\ UNCHANGED <<configfile, fs, bw, store>>

\* settings.load_file(sfile)
LoadFile(sfile) ==
    LET r == load_file(fs, settings, configfile, sfile)
    IN /\ settings' = r.d
       /\ configfile' = r.cf
       /\ last' = Call("load_file", <<>>, sfile, r.ret, r.err, <<>>)
       /\ UNCHANGED <<fs, bw, store>>

\* a faulty read_file_noset that, like load_file, keeps the path it was given
\* (C10 must tell it from the code)
ReadFileNosetKeepsPath(sfile) ==
    /\ last' = Call("read_file_noset", <<>>, sfile, "dict", None,
                    read_file_noset(fs, configfile, sfile))
    /\ configfile' = IF sfile = None THEN configfile ELSE sfile
    /\ UNCHANGED <<settings, fs, bw, store>>

\* settings.read_file_noset(sfile)
ReadFileNoset(sfile) ==
    /\ last' = Call("read_file_noset", <<>>, sfile, "dict", None,
                    read_file_noset(fs, configfile, sfile))
    /\ UNCHANGED <<settings, configfile, fs, bw, store>>

\* a faulty save that, like load_file, takes the given path as its configfile
SaveSwitches(sfile, io) ==
    LET r == save(fs, settings, configfile, sfile, io)
    IN /\ io \in IoOutcomes(settings)
       /\ fs' = r.files
       /\ configfile' = IF sfile = None THEN configfile ELSE sfile
       /\ last' = [Call("save", <<>>, sfile, r.ret, r.err, <<>>) EXCEPT !.io = io]
       /\ UNCHANGED <<settings, bw, store>>

\* a faulty save that falls back on the default file when no configfile is set
SaveDefaulted(sfile, io) ==
    LET cf == IF configfile = None THEN DefaultPath ELSE configfile
        r == save(fs, settings, cf, sfile, io)
    IN /\ io \in IoOutcomes(settings)
       /\ fs' = r.files
       /\ last' = [Call("save", <<>>, sfile, r.ret, r.err, <<>>) EXCEPT !.io = io]
       /\ UNCHANGED <<settings, configfile, bw, store>>

\* settings.save(sfile), with the outcome io of its file I/O
Save(sfile, io) ==
    LET r == save(fs, settings, configfile, sfile, io)
    IN /\ io \in IoOutcomes(settings)
       /\ fs' = r.files
       /\ last' = [Call("save", <<>>, sfile, r.ret, r.err, <<>>) EXCEPT !.io = io]
       /\ UNCHANGED <<settings, configfile, bw, store>>

\* a faulty constructor that loads nothing when it is given no file
ConstructUnloaded(sconfigfile) ==
    LET r == construct(fs, sconfigfile)
    IN /\ fs' = r.files
       /\ settings' = IF r.err # None THEN settings
                      ELSE IF sconfigfile = None THEN <<>> ELSE r.d
       /\ configfile' = IF r.err = None THEN r.cf ELSE configfile
       /\ last' = Call("construct", <<>>, sconfigfile,
                       IF r.err = None THEN "None" ELSE "raised", r.err, <<>>)
       /\ UNCHANGED <<bw, store>>

\* settings = EasySettings(sconfigfile): the store is replaced by a new one,
\* unless the constructor raises
Construct(sconfigfile) ==
    LET r == construct(fs, sconfigfile)
    IN /\ fs' = r.files
       /\ settings' = IF r.err = None THEN r.d ELSE settings
       /\ configfile' = IF r.err = None THEN r.cf ELSE configfile
       /\ last' = Call("construct", <<>>, sconfigfile,
                       IF r.err = None THEN "None" ELSE "raised", r.err, <<>>)
       /\ UNCHANGED <<bw, store>>

\* settings.configfile = path
SetConfigfile(path) ==
    /\ configfile' = path
    /\ last' = Call("configfile", <<>>, path, "None", None, <<>>)
    /\ UNCHANGED <<settings, fs, bw, store>>

\* the user, an editor or another program writes a file
ExternalWrite(path, text) ==
    /\ bw.state # "open"
    /\ fs' = [fs EXCEPT ![path] = File(text)]
    /\ last' = Call("external", <<>>, path, "None", None, <<>>)
    /\ UNCHANGED <<settings, configfile, bw, store>>

\* a faulty set_list that takes back the pairs it applied when one is refused
SetListUndone(lst_settings) ==
    LET r == set_list(settings, lst_settings)
    IN /\ Len(r.d) <= MaxEntries
       /\ settings' = IF r.err = None THEN r.d ELSE settings
       /\ last' = [Call("set_list", <<>>, None,
                        IF r.err = None THEN "True" ELSE "raised", r.err, <<>>)
                   EXCEPT !.args = lst_settings]
       /\ UNCHANGED <<configfile, fs, bw, store>>

\* settings.set_list(lst_settings)
SetList(lst_settings) ==
    LET r == set_list(settings, lst_settings)
    IN /\ Len(r.d) <= MaxEntries
       /\ settings' = r.d
       /\ last' = [Call("set_list", <<>>, None,
                        IF r.err = None THEN "True" ELSE "raised", r.err, <<>>)
                   EXCEPT !.args = lst_settings]
       /\ UNCHANGED <<configfile, fs, bw, store>>

\* settings.remove(option) for one key
Remove(option) ==
    LET r == remove(settings, "str", option)
    IN /\ settings' = r.d
       /\ last' = [Call("remove", option, None, r.ret, r.err, <<>>)
                   EXCEPT !.typ = "str"]
       /\ UNCHANGED <<configfile, fs, bw, store>>

\* settings.remove(option) for a list or a tuple of keys
RemoveSeveral(typ, option) ==
    LET r == remove(settings, typ, option)
    IN /\ settings' = r.d
       /\ last' = [Call("remove", <<>>, None, r.ret, r.err, <<>>)
                   EXCEPT !.typ = typ, !.keys = option]
       /\ UNCHANGED <<configfile, fs, bw, store>>

\* a faulty clear that also saves the emptied settings
ClearSaved ==
    /\ settings' = clear(settings)
    /\ fs' = save(fs, clear(settings), configfile, None, NoFail).files
    /\ last' = Call("clear", <<>>, None, "True", None, <<>>)
    /\ UNCHANGED <<configfile, bw, store>>

\* settings.clear()
Clear ==
    /\ settings' = clear(settings)
    /\ last' = Call("clear", <<>>, None, "True", None, <<>>)
    /\ UNCHANGED <<configfile, fs, bw, store>>

\* settings.clear_values(lst_options); given is FALSE for clear_values()
ClearValues(given, lst_options) ==
    /\ settings' = clear_values(settings, given, lst_options)
    /\ last' = [Call("clear_values", <<>>, None, "True", None, <<>>)
                EXCEPT !.typ = IF given THEN "list" ELSE None,
                       !.keys = lst_options]
    /\ UNCHANGED <<configfile, fs, bw, store>>

\* settings.setsave(soption, svalue), with the outcome io of the file I/O
SetSave(soption, svalue, io) ==
    LET r == setsave(fs, settings, configfile, soption, svalue, io)
    IN /\ io \in IoOutcomes(r.d)
       /\ Len(r.d) <= MaxEntries
       /\ settings' = r.d
       /\ fs' = r.files
       /\ last' = [Call("setsave", soption, None, r.ret, r.err, <<>>)
                   EXCEPT !.io = io, !.out = <<[k |-> soption, val |-> svalue]>>]
       /\ UNCHANGED <<configfile, bw, store>>

\* settings.is_saved()
IsSaved ==
    LET r == is_saved(fs, settings, configfile)
    IN /\ last' = Call("is_saved", <<>>, None, r.ret, r.err, <<>>)
       /\ UNCHANGED <<settings, configfile, fs, bw, store>>

\* the comparisons of a store: three methods and six operators
CompareMethods == {"compare_opts", "compare_vals", "compare_settings"}
CompareOperators == {"eq", "ne", "gt", "lt", "ge", "le"}

compare_call(d, op, other, other2) ==
    CASE op = "compare_opts" -> compare_opts(d, other, other2)
      [] op = "compare_vals" -> compare_vals(d, other, other2)
      [] op = "compare_settings" -> compare_settings(d, other, other2)
      [] op = "eq" -> eq(d, other)
      [] op = "ne" -> ne(d, other)
      [] op = "gt" -> gt(d, other)
      [] op = "lt" -> lt(d, other)
      [] op = "ge" -> ge(d, other)
      [] op = "le" -> le(d, other)

\* settings.compare_*(other[, other2]), or settings <operator> other
Compare(op, other, other2) ==
    LET r == compare_call(settings, op, other, other2)
    IN /\ op \in CompareOperators => other2 = NoValue
       /\ last' = [Call(op, <<>>, None, r.ret, r.err, <<>>)
                   EXCEPT !.args = <<other, other2>>]
       /\ UNCHANGED <<settings, configfile, fs, bw, store>>

-----------------------------------------------------------------------------
(* BackedUpWriter *)

\* the exception the `with` body may leave by
BodyError == "ValueError"

\* BackedUpWriter(filename).__enter__(): the backup made (None for a file
\* that is not there: shutil.copy2 raises FileNotFoundError)
enter_backup(files, filename) ==
    IF isfile(files, filename) THEN BackupName(filename) ELSE None

\* a faulty __enter__ that opens the file before it copies it (C6 must tell
\* it from the code)
enter_files_open_first(files, filename) ==
    LET opened == open_w(files, filename)
    IN IF enter_backup(files, filename) = None THEN opened
       ELSE [opened EXCEPT ![BackupName(filename)] = opened[filename]]

\* __enter__(): the file system after the copy and open(filename, 'w')
enter_files(files, filename) ==
    LET backup == enter_backup(files, filename)
        copied == IF backup = None THEN files
                  ELSE [files EXCEPT ![backup] = files[filename]]
    IN open_w(copied, filename)

\* self.file.close(): what was written reaches the file
close_files(files, b) == [files EXCEPT ![b.filename] = File(b.buf)]

\* a faulty __exit__ that removes the backup whatever happened (C4 must tell
\* it from the code)
exit_files_backup_removed(files, b, val) ==
    IF b.filename_backup # None
    THEN [files EXCEPT ![b.filename_backup] = NoFile]
    ELSE IF val # None
         THEN [files EXCEPT ![b.filename] = NoFile]
         ELSE files

\* a faulty __exit__ that leaves a new file behind when the body raised (C5
\* must tell it from the code)
exit_files_new_kept(files, b, val) ==
    IF b.filename_backup # None
    THEN IF val = None
         THEN [files EXCEPT ![b.filename_backup] = NoFile]
         ELSE [files EXCEPT ![b.filename] = files[b.filename_backup],
                            ![b.filename_backup] = NoFile]
    ELSE files

\* __exit__(typ, val, trace) after the close: the backup is removed, or moved
\* back over the file; a new file is removed when the body raised
exit_files(files, b, val) ==
    IF b.filename_backup # None
    THEN IF val = None
         THEN [files EXCEPT ![b.filename_backup] = NoFile]
         ELSE [files EXCEPT ![b.filename] = files[b.filename_backup],
                            ![b.filename_backup] = NoFile]
    ELSE IF val # None
         THEN [files EXCEPT ![b.filename] = NoFile]
         ELSE files

\* __exit__ returns None: an exception of the body is raised again
exit_propagates(val) == val # None

NoWriter ==
    [state |-> "none", filename |-> None, filename_backup |-> None,
     buf |-> <<>>, val |-> None, propagated |-> FALSE,
     before |-> NoFile, before_backup |-> NoFile]

\* with BackedUpWriter(filename) as f: the scope is entered
BWEnter(filename) ==
    /\ bw.state # "open"
    /\ bw' = [state |-> "open", filename |-> filename,
              filename_backup |-> enter_backup(fs, filename),
              buf |-> <<>>, val |-> None, propagated |-> FALSE,
              before |-> fs[filename], before_backup |-> fs[BackupName(filename)]]
    /\ fs' = enter_files(fs, filename)
    /\ last' = Call("bw_enter", <<>>, filename, "None", None, <<>>)
    /\ UNCHANGED <<settings, configfile, store>>

\* f.write(text) inside the scope
BWWrite(text) ==
    /\ bw.state = "open"
    /\ Len(bw.buf) < MaxWrites
    /\ bw' = [bw EXCEPT !.buf = @ \o text]
    /\ last' = Call("bw_write", <<>>, bw.filename, "None", None, <<>>)
    /\ UNCHANGED <<settings, configfile, fs, store>>

\* the scope is left: val is None, or the exception the body raised
BWExit(val) ==
    /\ bw.state = "open"
    /\ bw' = [bw EXCEPT !.state = "closed", !.val = val,
                        !.propagated = exit_propagates(val)]
    /\ fs' = exit_files(close_files(fs, bw), bw, val)
    /\ last' = Call("bw_exit", <<>>, bw.filename,
                    IF exit_propagates(val) THEN "raised" ELSE "None",
                    IF exit_propagates(val) THEN val ELSE None, <<>>)
    /\ UNCHANGED <<settings, configfile, store>>

-----------------------------------------------------------------------------
(* The format adapters: JSONSettings, TOMLSettings, YAMLSettings *)

Adapters == {"JSONSettings", "TOMLSettings", "YAMLSettings"}

\* cls(iterable, filename=filename): data and filename of the new object
NewStore(cls, data, filename) == [cls |-> cls, data |-> data, filename |-> filename]

Quote == "\""
Quoted(s) == <<Quote>> \o s \o <<Quote>>

\* a string between double quotes, read back
Unquote(text) ==
    IF /\ Len(text) >= 2
       /\ text[1] = Quote /\ text[Len(text)] = Quote
       /\ ~Contains(SubSeq(text, 2, Len(text) - 1), Quote)
    THEN Returned(SubSeq(text, 2, Len(text) - 1))
    ELSE Raised(<<>>)

\* dict.update(other)
RECURSIVE update(_, _)
update(d, other) ==
    IF other = <<>> THEN d
    ELSE update(DictSet(d, Head(other).k, Head(other).val), Tail(other))

\* what a decoder returns: a dict, or the error it raises
Decoded(d) == [ok |-> TRUE, d |-> d, err |-> None]
DecodeError(err) == [ok |-> FALSE, d |-> <<>>, err |-> err]

\* json.dump(data, f, indent=4): the chunks given to f.write, in order; a
\* value that is no JSON value raises TypeError when its turn comes
Indent == <<" ", " ", " ", " ">>

json_value(x) == IF x.t = "str" THEN Returned(Quoted(x.v)) ELSE Raised("TypeError")

json_chunks(d) ==
    IF d = <<>> THEN <<Returned(<<"{", "}">>)>>
    ELSE <<Returned(<<"{">>), Returned(<<NL>> \o Indent)>>
         \o Flatten([i \in 1..Len(d) |->
                (IF i = 1 THEN <<>> ELSE <<Returned(<<",", NL>> \o Indent)>>)
                \o <<Returned(Quoted(d[i].k)), Returned(<<":", " ">>),
                     json_value(d[i].val)>>])
         \o <<Returned(<<NL>>), Returned(<<"}">>)>>

\* one line of an indented JSON object: "key": "value", with a comma unless
\* it is the last one
json_entry(sline, islast) ==
    LET n == Len(sline)
        tail == IF islast THEN 1 ELSE 2
        body == SubSeq(sline, 5, n - tail)
        c == index(body, ":")
        key == Unquote(SubSeq(body, 1, c - 1))
        val == Unquote(SubSeq(body, c + 2, Len(body)))
    IN IF \/ n < 5 + tail
          \/ SubSeq(sline, 1, 4) # Indent
          \/ sline[n] # NL
          \/ (~islast /\ sline[n - 1] # ",")
          \/ c = 0 \/ c >= Len(body)
          \/ body[c + 1] # " "
          \/ ~key.ok \/ ~val.ok
       THEN Raised(<<>>)
       ELSE [ok |-> TRUE, s |-> <<>>, k |-> key.s, val |-> VStr(val.s)]

\* the one value of a set of one value
The(S) == CHOOSE x \in S : TRUE

\* the dict of the entries read, or the error err when one was not read
entries_dict(entries, err) ==
    IF \E i \in 1..Len(entries) : ~entries[i].ok THEN DecodeError(err)
    ELSE Decoded(update(<<>>, [i \in 1..Len(entries) |->
                                  [k |-> entries[i].k, val |-> entries[i].val]]))

\* the object of an indented JSON text of these lines
json_object(lines) ==
    LET n == Len(lines)
    IN IF lines = <<<<"{", "}">>>> THEN Decoded(<<>>)
       ELSE IF n < 3 \/ lines[1] # <<"{", NL>> \/ lines[n] # <<"}">>
       THEN DecodeError("JSONDecodeError")
       ELSE The({entries_dict(entries, "JSONDecodeError") :
                    entries \in {[i \in 1..(n - 2) |->
                                     json_entry(lines[i + 1], i = n - 2)]}})

\* json.load(f): the object of the text, or JSONDecodeError
json_load(text) ==
    The({json_object(lines) : lines \in {file_lines(rstrip(text))}})

\* toml.dumps(data): one line per key, key = "value"
toml_dumps(d) ==
    Flatten([i \in 1..Len(d) |->
                d[i].k \o <<" ", "=", " ">> \o Quoted(d[i].val.v) \o <<NL>>])

toml_entry(sline) ==
    LET n == Len(sline)
        e == index(sline, "=")
        key == SubSeq(sline, 1, e - 2)
        val == Unquote(SubSeq(sline, e + 2, n - 1))
    IN IF \/ n < 2 \/ sline[n] # NL
          \/ e < 3 \/ e >= n - 1
          \/ sline[e - 1] # " " \/ sline[e + 1] # " "
          \/ Contains(key, " ") \/ Contains(key, Quote) \/ Contains(key, ":")
          \/ Head(key) \in {"{", "}"}
          \/ ~val.ok
       THEN Raised(<<>>)
       ELSE [ok |-> TRUE, s |-> <<>>, k |-> key, val |-> VStr(val.s)]

\* toml.load(f): the table of the text, or TomlDecodeError
toml_load(text) ==
    The({The({entries_dict(entries, "TomlDecodeError") :
                 entries \in {[i \in 1..Len(lines) |-> toml_entry(lines[i])]}}) :
            lines \in {file_lines(text)}})

\* yaml.dump(data, f): one line per key, key: value; {} for an empty dict
yaml_lines(d) ==
    IF d = <<>> THEN <<<<"{", "}", NL>>>>
    ELSE [i \in 1..Len(d) |-> d[i].k \o <<":", " ">> \o d[i].val.v \o <<NL>>]

yaml_entry(sline) ==
    LET n == Len(sline)
        c == index(sline, ":")
        key == SubSeq(sline, 1, c - 1)
        val == SubSeq(sline, c + 2, n - 1)
    IN IF \/ n < 2 \/ sline[n] # NL
          \/ c < 2 \/ c >= n - 1
          \/ sline[c + 1] # " "
          \/ Contains(key, " ") \/ Contains(key, Quote)
          \/ Contains(val, Quote) \/ Contains(val, " ") \/ Contains(val, ",")
       THEN Raised(<<>>)
       ELSE [ok |-> TRUE, s |-> <<>>, k |-> key, val |-> VStr(val)]

\* the mapping of a YAML text of these lines, one key: value per line; a
\* text of plain words is a string, which load() refuses with TypeError
yaml_mapping(lines) ==
    IF \A i \in 1..Len(lines) : ~Contains(lines[i], ":")
    THEN DecodeError("TypeError")
    ELSE The({entries_dict(entries, "YAMLError") :
                 entries \in {[i \in 1..Len(lines) |-> yaml_entry(lines[i])]}})

\* yaml.load(f): None for an empty text; a JSON object is a YAML mapping
yaml_load(text) ==
    IF text = <<>> THEN Decoded(<<>>)
    ELSE The({IF asjson.ok THEN asjson
              ELSE IF Head(text) = "{" THEN DecodeError("YAMLError")
              ELSE yaml_mapping(lines) :
                 asjson \in {json_load(text)}, lines \in {file_lines(text)}})

\* module.load(f) of the adapter
module_load(cls, text) ==
    CASE cls = "JSONSettings" -> json_load(text)
      [] cls = "TOMLSettings" -> toml_load(text)
      [] cls = "YAMLSettings" -> yaml_load(text)

\* module.dump(data, f): the texts given to f.write, in order
module_chunks(cls, d) ==
    CASE cls = "JSONSettings" -> json_chunks(d)
      [] cls = "TOMLSettings" -> <<Returned(toml_dumps(d))>>
      [] cls = "YAMLSettings" -> [i \in 1..Len(yaml_lines(d)) |-> Returned(yaml_lines(d)[i])]

\* load(filename) of the object st: JSONSettings.load replaces the data,
\* SettingsBase.load updates it
adapter_load(files, st, filename) ==
    LET fname == IF filename # None \/ st.filename = None THEN filename
                 ELSE st.filename
        st2 == [st EXCEPT !.filename = fname]
    IN IF fname = None THEN [err |-> "ValueError", st |-> st2]
       ELSE IF ~isfile(files, fname) THEN [err |-> "FileNotFoundError", st |-> st2]
       ELSE LET r == module_load(st.cls, files[fname].data)
            IN IF ~r.ok THEN [err |-> r.err, st |-> st2]
               ELSE [err |-> None,
                     st |-> [st2 EXCEPT !.data =
                                IF st.cls = "JSONSettings" THEN r.d
                                ELSE update(st.data, r.d)]]

\* cls.from_file(filename): JSONSettings gives the name to load(), the others
\* to the constructor
from_file(files, cls, filename) ==
    IF cls = "JSONSettings"
    THEN adapter_load(files, NewStore(cls, <<>>, None), filename)
    ELSE adapter_load(files, NewStore(cls, <<>>, filename), None)

\* a faulty setdefault that replaces the value of a key that is there
setdefault_overwrites(d, key, value) == DictSet(d, key, value)

\* config.setdefault(k, v)
setdefault(d, key, value) == IF key \in DictKeys(d) THEN d ELSE DictSet(d, key, value)

\* for k in default: config.setdefault(k, default[k])
RECURSIVE setdefaults(_, _)
setdefaults(d, default) ==
    IF default = <<>> THEN d
    ELSE setdefaults(setdefault(d, Head(default).k, Head(default).val), Tail(default))

\* load_settings(cls, filename, default)
load_settings(files, cls, filename, default) ==
    LET r == from_file(files, cls, filename)
    IN IF r.err = None
       THEN [err |-> None, st |-> [r.st EXCEPT !.data = setdefaults(@, default)]]
       ELSE IF r.err = "FileNotFoundError"
       THEN [err |-> None, st |-> NewStore(cls, default, filename)]
       ELSE r

\* load_yaml_settings(filename, default)
load_yaml_settings(files, filename, default) ==
    load_settings(files, "YAMLSettings", filename, default)

\* load_toml_settings(filename, default)
load_toml_settings(files, filename, default) ==
    LET r == from_file(files, "TOMLSettings", filename)
        config == IF r.err = None THEN r.st
                  ELSE NewStore("TOMLSettings", <<>>, filename)
    IN IF r.err \notin {None, "FileNotFoundError"} THEN r
       ELSE [err |-> None, st |-> [config EXCEPT !.data = setdefaults(@, default)]]

\* load_json_settings(filename, default)
load_json_settings(files, filename, default) ==
    LET r == from_file(files, "JSONSettings", filename)
        config == IF r.err = None THEN r.st
                  ELSE [NewStore("JSONSettings", <<>>, None) EXCEPT !.filename = filename]
    IN IF r.err \notin {None, "FileNotFoundError"} THEN r
       ELSE [err |-> None, st |-> [config EXCEPT !.data = setdefaults(@, default)]]

\* set(option, value) of an adapter
adapter_set(st, option, value) == [st EXCEPT !.data = DictSet(@, option, value)]

\* JSONSettings.save(filename): open(filename, 'w') and json.dump into it;
\* the write numbered io fails (none when io is NoFail)
json_save(files, st, filename, io) ==
    LET fname == IF filename # None THEN filename ELSE st.filename
        st2 == [st EXCEPT !.filename = fname]
        writes == json_chunks(st.data)
        stop == FirstFailure(writes, io)
    IN IF fname = None THEN [err |-> "ValueError", st |-> st2, files |-> files]
       ELSE [err |-> IF stop > Len(writes) THEN None
                     ELSE IF writes[stop].ok THEN "OSError" ELSE writes[stop].s,
             st |-> st2,
             files |-> save_written(files, fname, writes, stop)]

\* SettingsBase.save(module, filename): module.dump inside a BackedUpWriter
base_save(files, st, filename, io) ==
    LET fname == IF filename # None THEN filename ELSE st.filename
        st2 == [st EXCEPT !.filename = fname]
        writes == module_chunks(st.cls, st.data)
        stop == FirstFailure(writes, io)
        val == IF stop > Len(writes) THEN None
               ELSE IF writes[stop].ok THEN "OSError" ELSE writes[stop].s
        b == [NoWriter EXCEPT !.filename = fname,
                              !.filename_backup = enter_backup(files, fname),
                              !.buf = Flatten([i \in 1..(stop - 1) |-> writes[i].s])]
    IN IF fname = None THEN [err |-> "ValueError", st |-> st2, files |-> files]
       ELSE [err |-> val, st |-> st2,
             files |-> exit_files(close_files(enter_files(files, fname), b), b, val)]

\* save(filename) of an adapter
adapter_save(files, st, filename, io) ==
    IF st.cls = "JSONSettings" THEN json_save(files, st, filename, io)
    ELSE base_save(files, st, filename, io)

\* setsave(option, value): JSONSettings sets and saves; TOMLSettings and
\* YAMLSettings call SettingsBase.setsave without option and value, which
\* raises TypeError before anything is done
adapter_setsave(files, st, option, value, io) ==
    IF st.cls = "JSONSettings"
    THEN The({json_save(files, st2, None, io) : st2 \in {adapter_set(st, option, value)}})
    ELSE [err |-> "TypeError", st |-> st, files |-> files]

\* config = load_json_settings / load_toml_settings / load_yaml_settings(
\* filename, default): the object is replaced, unless the call raises
LoadSettings(cls, filename, default) ==
    \E r \in {CASE cls = "JSONSettings" -> load_json_settings(fs, filename, default)
                [] cls = "TOMLSettings" -> load_toml_settings(fs, filename, default)
                [] cls = "YAMLSettings" -> load_yaml_settings(fs, filename, default)} :
       /\ store' = IF r.err = None THEN r.st ELSE store
       /\ last' = [Call("load_settings", <<>>, filename,
                        IF r.err = None THEN "config" ELSE "raised", r.err, default)
                   EXCEPT !.typ = cls]
       /\ UNCHANGED <<settings, configfile, fs, bw>>

\* config.set(option, value); the toml and yaml modules are given strings
AdapterSet(option, value) ==
    /\ value.t = "str" \/ store.cls = "JSONSettings"
    /\ store' = adapter_set(store, option, value)
    /\ Len(store'.data) <= MaxEntries
    /\ last' = [Call("adapter.set", option, None, "None", None, <<>>)
                EXCEPT !.typ = store.cls, !.args = <<value>>]
    /\ UNCHANGED <<settings, configfile, fs, bw>>

\* config.save(filename)
AdapterSave(filename, io) ==
    \E r \in {adapter_save(fs, store, filename, io)} :
       /\ io \in {NoFail} \cup (1..Len(module_chunks(store.cls, store.data)))
       /\ store' = r.st
       /\ fs' = r.files
       /\ last' = [Call("adapter.save", <<>>, filename,
                        IF r.err = None THEN "None" ELSE "raised", r.err, <<>>)
                   EXCEPT !.typ = store.cls, !.io = io]
       /\ UNCHANGED <<settings, configfile, bw>>

\* config.setsave(option, value)
AdapterSetSave(option, value) ==
    \E r \in {adapter_setsave(fs, store, option, value, NoFail)} :
       /\ store' = r.st
       /\ Len(store'.data) <= MaxEntries
       /\ fs' = r.files
       /\ last' = [Call("adapter.setsave", option, None,
                        IF r.err = None THEN "None" ELSE "raised", r.err, <<>>)
                   EXCEPT !.typ = store.cls, !.args = <<value>>]
       /\ UNCHANGED <<settings, configfile, bw>>

-----------------------------------------------------------------------------
(* The inputs, and the specifications *)

\* keys given to set(): two plain keys, a tab, and three refused keys
KeyInputs == {<<"a">>, <<"b">>, <<"\t">>, <<>>, <<" ">>, <<"a", "=">>}

\* values given to set() in Spec
ValInputs == {VNone, VStr(<<"x">>)}

\* values given to set() in SpecSave: two strings and an object pickle refuses
SaveVals == {VStr(<<"x">>), VStr(<<"y">>), VObj}

\* files written from outside the program
FileTexts ==
    {<<"a", "=", "y", NL>>,
     <<"#", "c", NL, "b", "=", "y", NL, "n", "o", NL>>}

\* values of every supported type, given to set() in SpecRT
RTKeys == {<<"a">>, <<"b">>}
RTVals ==
    {VStr(<<>>), VStr(<<"x">>), VStr(<<"x", NL, "y">>), VStr(<<"x", " ">>),
     VBool(TRUE), VBool(FALSE), VInt(<<"7">>), VFloat(<<"1", ".", "5">>),
     VDate(<<"2", "0", "2", "0", "0", "1", "0", "2">>),
     VDateTime(<<"2", "0", "2", "0", "0", "1", "0", "2", "0", "3", "0", "4", "0", "5">>),
     VList(<<VInt(<<"7">>), VBool(TRUE)>>)}

\* text written inside a BackedUpWriter scope, and files found beside it
WriteTexts == {<<"a">>}
OtherTexts == {<<"x">>}

\* settings = EasySettings() where no file exists yet
Init ==
    /\ settings = <<>>
    /\ configfile = DefaultPath
    /\ fs = [p \in AllPaths |-> NoFile]
    /\ last = Call("construct", <<>>, None, "None", None, <<>>)
    /\ bw = NoWriter
    /\ store = NewStore("JSONSettings", <<>>, None)

\* set, load and read on files written from outside the program
Next ==
    \/ \E k \in KeyInputs, v \in ValInputs : Set(k, v)
    \/ \E p \in Paths \cup {None} : LoadFile(p)
    \/ \E p \in Paths \cup {None} : ReadFileNoset(p)
    \/ \E p \in Paths \cup {None} : SetConfigfile(p)
    \/ \E p \in Paths, text \in FileTexts : ExternalWrite(p, text)

Spec == Init /\ [][Next]_vars

\* set and save, with every outcome of the file I/O of save
NextSave ==
    \/ \E k \in RTKeys, v \in SaveVals : Set(k, v)
    \/ \E p \in {"my.conf", None}, io \in -1..(MaxEntries + 1) : Save(p, io)
    \/ \E text \in FileTexts : ExternalWrite("my.conf", text)
    \/ \E p \in {DefaultPath, None} : SetConfigfile(p)
    \/ Construct(None)

SpecSave == Init /\ [][NextSave]_vars

\* set, save and a new store on the saved file, for values of every type
NextRT ==
    \/ \E k \in RTKeys, v \in RTVals : Set(k, v)
    \/ Save("my.conf", NoFail)
    \/ Construct("my.conf")

SpecRT == Init /\ [][NextRT]_vars

\* BackedUpWriter scopes on files that may or may not be there
NextBW ==
    \/ \E p \in Paths : BWEnter(p)
    \/ \E text \in WriteTexts : BWWrite(text)
    \/ \E val \in {None, BodyError} : BWExit(val)
    \/ \E p \in AllPaths, text \in OtherTexts : ExternalWrite(p, text)

SpecBW == Init /\ [][NextBW]_vars

-----------------------------------------------------------------------------
(* The editing calls: set_list, remove, clear, clear_values *)

MaxPairs == 3        \* tuples in the list given to set_list

\* the value given to set() in SpecEdit; set_list and clear_values bring ''
EditVals == {VStr(<<"x">>)}

\* pairs given to set_list: a pair, an option without a value, a refused
\* option
PairInputs ==
    {Pair(<<"a">>, VStr(<<"x">>)), Single(<<"b">>),
     Pair(<<"a", "=">>, VStr(<<"x">>))}

\* lists that hold a tuple which is no pair: an empty one, one of three items
TupleLists ==
    {<<Tuple0, Pair(<<"a">>, VStr(<<"x">>))>>,
     <<Single(<<"b">>), Tuple3(<<"b">>, VStr(<<"y">>)), Pair(<<"a">>, VStr(<<"x">>))>>}

PairLists == UNION {[1..n -> PairInputs] : n \in 0..MaxPairs} \cup TupleLists

\* the keys given to remove() and clear_values() as a list or a tuple
OptionLists == {<<>>, <<<<"a">>>>, <<<<"a">>, <<"b">>>>, <<<<"b">>, <<"b">>>>}

\* the mapping is edited between saves of the default file
NextEdit ==
    \/ \E k \in RTKeys, v \in EditVals : Set(k, v)
    \/ \E lst \in PairLists : SetList(lst)
    \/ \E k \in RTKeys : Remove(k)
    \/ \E typ \in {"list", "tuple"}, ks \in OptionLists : RemoveSeveral(typ, ks)
    \/ Clear
    \/ ClearValues(FALSE, <<>>)
    \/ \E ks \in OptionLists : ClearValues(TRUE, ks)
    \/ Save(None, NoFail)
    \/ Construct(DefaultPath)

SpecEdit == Init /\ [][NextEdit]_vars

-----------------------------------------------------------------------------
(* is_saved and setsave *)

\* values given to set() and setsave() in SpecSaved: two strings, one with a
\* trailing space, and a list
SavedVals == {VStr(<<"x">>), VStr(<<"x", " ">>), VList(<<VInt(<<"7">>)>>)}

NextSaved ==
    \/ \E k \in RTKeys, v \in SavedVals : Set(k, v)
    \/ \E k \in RTKeys : Remove(k)
    \/ Clear
    \/ Save(None, NoFail)
    \/ \E k \in RTKeys \cup {<<"a", "=">>}, v \in SavedVals,
          io \in {NoFail, OpenFails, 1} : SetSave(k, v, io)
    \/ IsSaved
    \/ \E p \in {DefaultPath, None} : SetConfigfile(p)

SpecSaved == Init /\ [][NextSaved]_vars

-----------------------------------------------------------------------------
(* The comparisons *)

\* values given to set() in SpecCmp, and held by the dicts compared with
CmpVals == {VInt(<<"1">>), VStr(<<"x">>), VList(<<VInt(<<"7">>)>>)}

CmpDicts ==
    {<<>>}
    \cup {<<[k |-> <<"a">>, val |-> v]>> : v \in CmpVals}
    \cup {<<[k |-> <<"a">>, val |-> v], [k |-> <<"b">>, val |-> w]>> :
             v \in CmpVals, w \in CmpVals}

\* what the store is compared with: dicts, two other stores, and an int
Operands ==
    {AsDict(d) : d \in CmpDicts}
    \cup {AsStore(<<>>), AsStore(<<[k |-> <<"a">>, val |-> VInt(<<"1">>)]>>)}
    \cup {AnInt}

\* the second dict given to compare_opts, compare_vals and compare_settings
Operands2 ==
    {AsDict(<<>>),
     AsDict(<<[k |-> <<"a">>, val |-> VInt(<<"1">>)]>>),
     AsDict(<<[k |-> <<"a">>, val |-> VInt(<<"1">>)],
              [k |-> <<"b">>, val |-> VInt(<<"1">>)]>>),
     AsDict(<<[k |-> <<"a">>, val |-> VList(<<VInt(<<"7">>)>>)]>>),
     AnInt}

NextCmp ==
    \/ \E k \in RTKeys, v \in CmpVals : Set(k, v)
    \/ \E op \in CompareMethods \cup CompareOperators, other \in Operands :
          Compare(op, other, NoValue)
    \/ \E op \in CompareMethods, other \in Operands, other2 \in Operands2 :
          Compare(op, other, other2)

SpecCmp == Init /\ [][NextCmp]_vars

-----------------------------------------------------------------------------
(* Stores made on files written by hand *)

\* files found on disk: one setting; a comment behind spaces, a line without
\* '=', a key that comes twice and a value that holds '='; a key with spaces
\* around it; a line with nothing before its '='; a value that starts like a
\* pickle and is none; a pickled int
LoadTexts ==
    {<<"a", "=", "y", NL>>,
     <<" ", " ", "#", "c", "=", "z", NL, "b", "=", "x", NL, "n", "o", NL,
       "b", "=", "x", "=", "y", NL>>,
     <<" ", "a", " ", "=", "x", NL>>,
     <<"a", "=", "y", NL, "=", "x", NL, "b", "=", "y", NL>>,
     <<"b", "=", "I", "7", ES_NL, NL>>,
     <<"a", "=", "I", "7", ES_NL, ".", NL>>}

NextLoad ==
    \/ \E p \in Paths, text \in LoadTexts : ExternalWrite(p, text)
    \/ \E p \in Paths \cup {None} : Construct(p)
    \/ \E p \in Paths \cup {None} : LoadFile(p)
    \/ \E p \in Paths \cup {None} : ReadFileNoset(p)

SpecLoad == Init /\ [][NextLoad]_vars

-----------------------------------------------------------------------------
(* Keys that set() accepts, saved and loaded again *)

\* keys accepted by set(): a plain one, one that starts with '#', one with
\* spaces around it, one that holds a newline, the token '(es_nl)'
HardKeys ==
    {<<"a">>, <<"#", "a">>, <<" ", "a", " ">>, <<"a", NL, "b">>, <<ES_NL>>}

NextKeys ==
    \/ \E k \in HardKeys : Set(k, VStr(<<"x">>))
    \/ Clear
    \/ Save("my.conf", NoFail)
    \/ Construct("my.conf")

SpecKeys == Init /\ [][NextKeys]_vars

-----------------------------------------------------------------------------
(* The format adapters on one file *)

\* what the adapters are given: two keys, two strings and an object that no
\* module encodes, no defaults or defaults for both keys, one file
AdapterKeys == {<<"a">>, <<"b">>}
AdapterVals == {VStr(<<"x">>), VStr(<<"y">>), VObj}
Defaults ==
    {<<>>,
     <<[k |-> <<"a">>, val |-> VStr(<<"y">>)], [k |-> <<"b">>, val |-> VStr(<<"y">>)]>>}
AdapterFiles == {"my.conf"}

NextAdapter ==
    \/ \E cls \in Adapters, p \in AdapterFiles, default \in Defaults :
          LoadSettings(cls, p, default)
    \/ \E k \in AdapterKeys, v \in AdapterVals : AdapterSet(k, v)
    \/ \E p \in AdapterFiles \cup {None}, io \in {NoFail, 1} : AdapterSave(p, io)
    \/ \E k \in AdapterKeys, v \in AdapterVals : AdapterSetSave(k, v)

SpecAdapter == Init /\ [][NextAdapter]_vars

-----------------------------------------------------------------------------
(* The claims *)

\* the file a call with the argument path works on, in a store whose
\* configfile is cf
PathUsed(path, cf) == IF path = None THEN cf ELSE path

\* C1: round trip.  After save(P) of a mapping whose values are strings,
\* booleans, numbers, dates, date-times or lists, a new store made on P holds
\* the same keys and, for every key, an equal value.
C1_RoundTrip ==
    (last.op = "save" /\ last.ret = "True")
        => LET loaded == construct(fs, PathUsed(last.path, configfile))
           IN loaded.err = None /\ DictEq(loaded.d, settings)

\* C2: atomic save over an existing file.  When save() raises after it opened
\* a file that had content, the file holds its content of before the call and
\* no backup file <path>~ exists.
C2_AtomicSaveExisting ==
    [][LET path == PathUsed(last'.path, configfile)
       IN (/\ last'.op = "save" /\ last'.ret = "raised" /\ last'.io # OpenFails
           /\ isfile(fs, path))
              => fs'[path] = fs[path] /\ ~isfile(fs', BackupName(path))]_vars

\* C3: atomic save to a new file.  When save() raises after it opened a path
\* where no file was, no file exists at that path afterwards.
C3_AtomicSaveNew ==
    [][LET path == PathUsed(last'.path, configfile)
       IN (/\ last'.op = "save" /\ last'.ret = "raised" /\ last'.io # OpenFails
           /\ path # None /\ ~isfile(fs, path))
              => ~isfile(fs', path)]_vars

\* the BackedUpWriter scope was just left
ScopeLeft == last.op = "bw_exit" /\ bw.state = "closed"

\* C4: BackedUpWriter restores.  When the file existed at entry and the scope
\* is left by an exception, the file holds its content of entry, the backup
\* <target>~ is gone and the exception reaches the caller.
C4_BackedUpWriterRestores ==
    (ScopeLeft /\ bw.val # None /\ bw.before.exists)
        => /\ fs[bw.filename] = bw.before
           /\ ~isfile(fs, BackupName(bw.filename))
           /\ bw.propagated /\ last.err = bw.val

C4_Witness ==
    /\ ScopeLeft /\ bw.val # None /\ bw.before.exists
    /\ bw.buf # <<>> /\ File(bw.buf) # bw.before

\* C5 as claimed: when the file did not exist at entry and the scope is left
\* by an exception, neither the file nor a file <target>~ exists afterwards.
C5_NewFileAndBackupGone ==
    (ScopeLeft /\ bw.val # None /\ ~bw.before.exists)
        => /\ ~isfile(fs, bw.filename)
           /\ ~isfile(fs, BackupName(bw.filename))

\* C5, amended: when the file did not exist at entry and the scope is left by
\* an exception, the file does not exist afterwards and no backup was made:
\* <target>~ is as it was at entry (absent, or the file that was there).
C5_NewFileRemoved ==
    (ScopeLeft /\ bw.val # None /\ ~bw.before.exists)
        => /\ ~isfile(fs, bw.filename)
           /\ fs[BackupName(bw.filename)] = bw.before_backup
           /\ bw.filename_backup = None

C5_Witness ==
    /\ ScopeLeft /\ bw.val # None /\ ~bw.before.exists
    /\ bw.buf # <<>>

\* C6: BackedUpWriter success.  While the scope is open on a file that existed
\* at entry, <target>~ exists and holds the content of entry; when the scope
\* is left without an exception the backup is gone and the file holds what
\* was written inside the scope.
C6_BackupWhileOpen ==
    /\ (bw.state = "open" /\ bw.before.exists)
           => /\ isfile(fs, BackupName(bw.filename))
              /\ fs[BackupName(bw.filename)] = bw.before
    /\ (ScopeLeft /\ bw.val = None /\ bw.before.exists)
           => /\ ~isfile(fs, BackupName(bw.filename))
              /\ fs[bw.filename] = File(bw.buf)
              /\ ~bw.propagated

C6_Witness ==
    /\ ScopeLeft /\ bw.val = None /\ bw.before.exists
    /\ bw.buf # <<>> /\ File(bw.buf) # bw.before

\* the key is empty or made of whitespace characters only
Blank(key) == \A i \in 1..Len(key) : key[i] \in Whitespace

\* C7: key validation.  set(key, value) raises esSetError and leaves the
\* mapping as it was when key holds '=', is empty or is whitespace only; for
\* every other key it sets that key and no other.
C7_KeyValidation ==
    [][last'.op = "set"
          => LET key == last'.key
             IN IF Contains(key, "=") \/ Blank(key)
                THEN last'.err = "esSetError" /\ settings' = settings
                ELSE /\ last'.err = None
                     /\ DictKeys(settings') = DictKeys(settings) \cup {key}
                     /\ \A k \in DictKeys(settings) \ {key} :
                            DictGet(settings', k) = DictGet(settings, k)]_vars

\* C8: merge load.  load_file changes no key but those of the file: a key of
\* the mapping that the file does not hold keeps its value, and every key of
\* the mapping afterwards was in the mapping or is in the file.
C8_MergeLoad ==
    [][last'.op = "load_file"
          => LET infile == DictKeys(read_file_noset(fs, configfile', None))
             IN /\ \A k \in DictKeys(settings) \ infile :
                       /\ k \in DictKeys(settings')
                       /\ DictGet(settings', k) = DictGet(settings, k)
                /\ DictKeys(settings') \subseteq DictKeys(settings) \cup infile]_vars

C8_Witness ==
    /\ last.op = "load_file" /\ last.ret = "True"
    /\ \E k \in DictKeys(settings) :
           k \notin DictKeys(read_file_noset(fs, configfile, None))
    /\ \E k \in DictKeys(settings) :
           k \in DictKeys(read_file_noset(fs, configfile, None))

\* C9 as claimed: load_file on a path where no file exists returns False,
\* creates no file and leaves the mapping and the configfile as they were.
C9_MissingFileNoOp ==
    [][(last'.op = "load_file" /\ ~isfile(fs, PathUsed(last'.path, configfile)))
          => /\ last'.ret = "False" /\ last'.err = None
             /\ fs' = fs
             /\ settings' = settings
             /\ configfile' = configfile]_vars

\* C9, amended: load_file on a path where no file exists returns False, raises
\* nothing, creates no file and leaves the mapping as it was; the configfile
\* is as it was for a call without a path, and is the given path for a call
\* with one.
C9_MissingFileKeepsMapping ==
    [][(last'.op = "load_file" /\ ~isfile(fs, PathUsed(last'.path, configfile)))
          => /\ last'.ret = "False" /\ last'.err = None
             /\ fs' = fs
             /\ settings' = settings
             /\ configfile' = PathUsed(last'.path, configfile)]_vars

C9_Witness ==
    /\ last.op = "load_file" /\ last.ret = "False"
    /\ last.path # None /\ ~isfile(fs, last.path)
    /\ configfile = last.path
    /\ settings # <<>>

\* C10: read_file_noset returns the mapping decoded from the file, the empty
\* mapping when the file is missing, and changes neither the mapping, nor the
\* configfile, nor the files, with or without a path.
C10_ReadChangesNothing ==
    [][last'.op = "read_file_noset"
          => LET path == PathUsed(last'.path, configfile)
             IN /\ settings' = settings
                /\ configfile' = configfile
                /\ fs' = fs
                /\ last'.err = None
                /\ last'.out = IF isfile(fs, path)
                               THEN ReadLines(<<>>, file_lines(fs[path].data))
                               ELSE <<>>]_vars

C10_Witness ==
    /\ last.op = "read_file_noset"
    /\ last.path # None /\ last.path # configfile
    /\ last.out # <<>>
    /\ ~DictEq(last.out, settings)

\* the store was just made without a file path
MadeWithoutPath == last.op = "construct" /\ last.path = None /\ last.err = None

C12_IsSaved ==
    /\ last.op = "is_saved"
           => last.ret = Bool(DictEq(read_file_noset(fs, configfile, None), settings))
    /\ (last.op = "save" /\ last.path = None /\ last.ret = "True")
           => is_saved(fs, settings, configfile).ret = "True"

\* the two dicts a comparison works on, and whether every operand given is a
\* store or a dict
CmpLeft == IF last.args[2] = NoValue THEN settings ELSE last.args[1].d
CmpRight == IF last.args[2] = NoValue THEN last.args[1].d ELSE last.args[2].d
CmpMappings ==
    /\ last.args[1].kind \in {"EasySettings", "dict"}
    /\ last.args[2].kind \in {"EasySettings", "dict", "NoValue"}

\* C13: compare_vals(a, b) is true if and only if a and b have the same keys
\* and, for every key, equal values: a key held by one of them only makes it
\* false, whichever holds it.
C13_CompareVals ==
    (last.op = "compare_vals" /\ CmpMappings)
        => last.ret = Bool(DictEq(CmpLeft, CmpRight))

\* C14: compare_settings(a, b) is true if and only if a and b have the same
\* number of entries, the same keys and equal values for every key; == gives
\* the result of compare_settings and != its negation.
C14_CompareSettings ==
    /\ (last.op = "compare_settings" /\ CmpMappings)
           => last.ret = Bool(Len(CmpLeft) = Len(CmpRight) /\ DictEq(CmpLeft, CmpRight))
    /\ (last.op = "eq" /\ CmpMappings)
           => last.ret = Bool(DictEq(settings, CmpRight))
    /\ (last.op = "ne" /\ CmpMappings)
           => last.ret = Bool(~DictEq(settings, CmpRight))

\* C15: a > b iff a has more entries than b, a < b iff it has fewer, a >= b
\* iff it has more or a and b are equal, a <= b iff it has fewer or they are
\* equal.
C15_Ordering ==
    (last.op \in {"gt", "lt", "ge", "le"} /\ CmpMappings)
        => LET a == settings
               b == CmpRight
           IN /\ last.op = "gt" => last.ret = Bool(Len(a) > Len(b))
              /\ last.op = "lt" => last.ret = Bool(Len(a) < Len(b))
              /\ last.op = "ge" => last.ret = Bool(Len(a) > Len(b) \/ DictEq(a, b))
              /\ last.op = "le" => last.ret = Bool(Len(a) < Len(b) \/ DictEq(a, b))

\* C16: every comparison given an operand that is neither a store nor a dict
\* raises esCompareError.
C16_CompareTypeError ==
    (last.op \in CompareMethods \cup CompareOperators /\ ~CmpMappings)
        => last.ret = "raised" /\ last.err = "esCompareError"

\* C17: remove(key) removes the key and returns True iff it was there;
\* remove(keys) for a list or a tuple removes every listed key that is there,
\* returns True iff all of them were, and changes no other entry.
C17_Remove ==
    [][last'.op = "remove"
          => LET listed == IF last'.typ = "str" THEN {last'.key}
                           ELSE {last'.keys[i] : i \in 1..Len(last'.keys)}
             IN /\ last'.err = None
                /\ last'.ret = Bool(listed \subseteq DictKeys(settings))
                /\ DictKeys(settings') = DictKeys(settings) \ listed
                /\ \A k \in DictKeys(settings') :
                       DictGet(settings', k) = DictGet(settings, k)]_vars

\* every element of the list is a pair, with or without its value
AllPairs(lst) == \A i \in 1..Len(lst) : lst[i].n \in {1, 2}

\* the pairs set one after the other; a pair without a value sets ''
RECURSIVE ApplyPairs(_, _)
ApplyPairs(d, pairs) ==
    IF pairs = <<>> THEN d
    ELSE ApplyPairs(DictSet(d, Head(pairs).k,
                            IF Head(pairs).n = 1 THEN VStr(<<>>) ELSE Head(pairs).val),
                    Tail(pairs))

\* C18: set_list(pairs) sets the pairs in the order of the list; at the first
\* pair that set refuses it raises esSetError, the pairs before it stay set
\* and the pairs after it are not set; a pair without a value sets ''.
C18_SetListPartial ==
    [][(last'.op = "set_list" /\ AllPairs(last'.args))
          => LET lst == last'.args
                 bad == {i \in 1..Len(lst) : KeyRefused(lst[i].k)}
                 stop == IF bad = {} THEN Len(lst) + 1
                         ELSE CHOOSE i \in bad : \A j \in bad : i <= j
             IN /\ settings' = ApplyPairs(settings, SubSeq(lst, 1, stop - 1))
                /\ IF bad = {}
                   THEN last'.ret = "True" /\ last'.err = None
                   ELSE last'.ret = "raised" /\ last'.err = "esSetError"]_vars

C18_Witness ==
    /\ last.op = "set_list" /\ last.err = "esSetError"
    /\ AllPairs(last.args) /\ Len(last.args) = 3
    /\ last.args[1].n = 1 /\ ~KeyRefused(last.args[1].k)
    /\ KeyRefused(last.args[2].k)
    /\ ~KeyRefused(last.args[3].k)
    /\ DictKeys(settings) = {last.args[1].k}
    /\ DictGet(settings, last.args[1].k) = VStr(<<>>)
    /\ last.args[3].k \notin DictKeys(settings)

\* C19: setsave(key, value) is set(key, value) followed by save(): it ends
\* as the step that fails ends, with the error of that step, and writes no
\* file when set fails; when it succeeds the mapping holds key -> value and
\* the configfile decodes to the mapping.
C19_SetSave ==
    [][last'.op = "setsave"
          => LET s == set(settings, last'.key, last'.out[1].val)
                 w == save(fs, s.d, configfile, None, last'.io)
             IN IF s.err # None
                THEN last'.err = s.err /\ settings' = settings /\ fs' = fs
                ELSE /\ settings' = s.d
                     /\ fs' = w.files
                     /\ last'.ret = w.ret /\ last'.err = w.err
                     /\ w.ret = "True"
                            => DictEq(read_file_noset(fs', configfile, None),
                                      settings')]_vars

\* C20: set, set_list, remove, clear and clear_values change the mapping in
\* memory only: no file is written and the configfile is as it was.
C20_NoImplicitSave ==
    [][last'.op \in {"set", "set_list", "remove", "clear", "clear_values"}
          => fs' = fs /\ configfile' = configfile]_vars

C20_Witness ==
    /\ last.op = "clear" /\ settings = <<>>
    /\ isfile(fs, configfile)
    /\ read_file_noset(fs, configfile, None) # <<>>

\* C30: save(P), with or without a path, leaves the configfile and the
\* mapping of the store as they were: the calls that follow work on the
\* configfile of before.
C30_SaveKeepsConfigfile ==
    [][last'.op = "save"
          => configfile' = configfile /\ settings' = settings]_vars

C30_Witness ==
    /\ last.op = "save" /\ last.ret = "True"
    /\ last.path = "my.conf" /\ configfile = DefaultPath
    /\ settings # <<>>
    /\ fs["my.conf"] # fs[DefaultPath]

\* the text of a blank configuration file
BlankFile ==
    <<"#", " ", "C", "o", "n", "f", "i", "g", "u", "r", "a", "t", "i", "o", "n",
      NL>>

\* C21: a store made on a path where no file is creates the file there, holding
\* the one line '# Configuration', and starts with an empty mapping; a store
\* made on a path where a file is leaves every file as it was.
C21_FreshFile ==
    [][(last'.op = "construct" /\ last'.path # None)
          => IF isfile(fs, last'.path)
             THEN fs' = fs
             ELSE /\ fs' = [fs EXCEPT ![last'.path] = File(BlankFile)]
                  /\ settings' = <<>>
                  /\ configfile' = last'.path
                  /\ last'.err = None]_vars

C21_Witness ==
    /\ last.op = "construct" /\ last.path = "my.conf" /\ last.err = None
    /\ fs["my.conf"] = File(BlankFile)
    /\ settings = <<>> /\ configfile = "my.conf"

IsComment(sline) ==
    \E i \in 1..Len(sline) :
        /\ sline[i] = "#"
        /\ \A j \in 1..(i - 1) : sline[j] \in Whitespace

FirstEq(sline) ==
    CHOOSE i \in 1..Len(sline) :
        sline[i] = "=" /\ \A j \in 1..(i - 1) : sline[j] # "="

Contributes(sline) == Contains(sline, "=") /\ ~IsComment(sline)

KeyOf(sline) == SubSeq(sline, 1, FirstEq(sline) - 1)

ValueOf(sline) == DecodeValue(SubSeq(sline, FirstEq(sline) + 1, Len(sline)))

\* C26: the dict returned by read_file_noset has one entry per key found
\* before the first '=' of a line that is no comment, and its value is decoded
\* from what follows that '=' on the last such line of the key.
C26_DecodingRule ==
    (last.op = "read_file_noset"
     /\ isfile(fs, IF last.path = None THEN configfile ELSE last.path))
        => LET path == IF last.path = None THEN configfile ELSE last.path
               lines == file_lines(fs[path].data)
               from == {i \in 1..Len(lines) : Contributes(lines[i])}
           IN /\ DictKeys(last.out) = {KeyOf(lines[i]) : i \in from}
              /\ Len(last.out) = Cardinality(DictKeys(last.out))
              /\ \A i \in from :
                    (\A j \in from : KeyOf(lines[j]) = KeyOf(lines[i]) => j <= i)
                        => DictGet(last.out, KeyOf(lines[i])) = ValueOf(lines[i])

C26_Witness ==
    /\ last.op = "read_file_noset" /\ last.path = "my.conf"
    /\ fs["my.conf"].data =
          <<" ", " ", "#", "c", "=", "z", NL, "b", "=", "x", NL, "n", "o", NL,
            "b", "=", "x", "=", "y", NL>>
    /\ last.out = <<[k |-> <<"b">>, val |-> VStr(<<"x", "=", "y">>)]>>

\* C27: load_file and read_file_noset return normally whatever the file holds,
\* and a load_file that does not return True leaves the mapping as it was.
C27_LoadNeverRaises ==
    [][last'.op \in {"load_file", "read_file_noset"}
          => /\ last'.err = None
             /\ last'.ret \in {"True", "False", "dict"}
             /\ (last'.ret # "True" => settings' = settings)]_vars

\* C28: a store made on the file that a save has just written holds exactly
\* the keys of the store that was saved.
C28_KeysPreserved ==
    [][(last.op = "save" /\ last.ret = "True" /\ last.path # None
        /\ last'.op = "construct" /\ last'.path = last.path)
          => /\ last'.err = None
             /\ DictKeys(settings') = DictKeys(settings)]_vars

\* C29: is_saved returns a boolean and does not raise, whatever the values of
\* the mapping, lists included; compare_vals, compare_settings and == return
\* True for a second store that holds the entries of this one.
C29_ComparisonTotal ==
    /\ last.op = "is_saved" => (last.err = None /\ last.ret \in {"True", "False"})
    /\ \A op \in {"compare_vals", "compare_settings", "eq"} :
          LET r == compare_call(settings, op, AsStore(settings), NoValue)
          IN r.err = None /\ r.ret = "True"

\* C23: load_json_settings, load_toml_settings and load_yaml_settings(file,
\* default) on a file that is there give the mapping of the file, with the
\* default entries for the keys the file has not; on a file that is not there
\* they raise nothing and give a store whose data is the default and whose
\* filename is the path; no file is written.
C23_LoadOrDefault ==
    [][last'.op = "load_settings"
          => LET cls == last'.typ
                 path == last'.path
                 default == last'.out
             IN IF ~isfile(fs, path)
                THEN /\ last'.err = None
                     /\ store' = NewStore(cls, default, path)
                     /\ fs' = fs
                ELSE module_load(cls, fs[path].data).ok
                     => LET onfile == module_load(cls, fs[path].data).d
                        IN /\ last'.err = None
                           /\ store'.cls = cls /\ store'.filename = path
                           /\ DictKeys(store'.data)
                                 = DictKeys(onfile) \cup DictKeys(default)
                           /\ Len(store'.data) = Cardinality(DictKeys(store'.data))
                           /\ \A k \in DictKeys(onfile) :
                                 DictGet(store'.data, k) = DictGet(onfile, k)
                           /\ \A k \in DictKeys(default) \ DictKeys(onfile) :
                                 DictGet(store'.data, k) = DictGet(default, k)
                           /\ fs' = fs]_vars

C23_Witness ==
    /\ last.op = "load_settings" /\ last.err = None
    /\ isfile(fs, "my.conf")
    /\ module_load(last.typ, fs["my.conf"].data)
          = Decoded(<<[k |-> <<"a">>, val |-> VStr(<<"x">>)]>>)
    /\ last.out = <<[k |-> <<"a">>, val |-> VStr(<<"y">>)],
                    [k |-> <<"b">>, val |-> VStr(<<"y">>)]>>
    /\ store.data = <<[k |-> <<"a">>, val |-> VStr(<<"x">>)],
                      [k |-> <<"b">>, val |-> VStr(<<"y">>)]>>

\* C24: a save() of a JSONSettings, TOMLSettings or YAMLSettings store that
\* raises on a file that was there leaves the file with the content it had
\* and leaves no backup of it.
C24_SaveRestores ==
    [][(/\ last'.op = "adapter.save" /\ last'.err # None
        /\ store'.filename # None /\ isfile(fs, store'.filename))
          => /\ fs'[store'.filename] = fs[store'.filename]
             /\ ~isfile(fs', BackupName(store'.filename))]_vars

\* C25: setsave(option, value) on a TOMLSettings or YAMLSettings store leaves
\* the store, the file and the error that set(option, value) and then save()
\* leave.
C25_SetSaveIsSetThenSave ==
    [][(last'.op = "adapter.setsave" /\ last'.typ \in {"TOMLSettings", "YAMLSettings"})
          => LET want == adapter_save(fs, adapter_set(store, last'.key, last'.args[1]),
                                      None, NoFail)
             IN /\ store' = want.st
                /\ fs' = want.files
                /\ last'.err = want.err]_vars

====
